---- MODULE Spec2Model ----
(***************************************************************************)
(* Model of the Actor class of module-actor (src/lib/index.ts): the        *)
(* schema registry (config), the subscription registry (subscriptions),    *)
(* the "command" event listeners, the relay engine and the hydration of    *)
(* new subscriptions.                                                      *)
(*                                                                         *)
(* A document is a record with a schemaType field.  Application documents  *)
(* carry an id and a status; command documents carry command and params    *)
(* (token and timestamp are opaque to the class and are left out).         *)
(* A mingo query is modelled by the equality filters it is used for in     *)
(* the readme: a record of field |-> value pairs, all of which the         *)
(* document must have.                                                     *)
(*                                                                         *)
(* The effects of the operation in progress (delivery calls in flight,     *)
(* emitted events, listener invocations, HTTP response) are kept in        *)
(* variables until the operation completes; the next request is taken      *)
(* when the previous one has completed.                                    *)
(***************************************************************************)
EXTENDS Integers, Sequences, FiniteSets, TLC

\* ---------------------------------------------------------------- bounds
MaxBatch == 2      \* longest batch of documents in one request or hydration
MaxListeners == 2  \* most "command" listeners installed during setup
MaxPending == 1    \* most hydrations suspended at the same time

\* ---------------------------------------------------------------- values
Webhooks == {"W1", "W2"}

\* the application documents that are posted: an open form and a closed
\* order (the class reads no field of a document itself: only the query of a
\* subscription does); the id of a document is its position in the batch
DocumentKinds ==
    { [schemaType |-> "form", status |-> "open"],
      [schemaType |-> "order", status |-> "closed"] }

BatchesOfLen(n) ==
    { [i \in 1..n |-> [schemaType |-> f[i].schemaType, id |-> i,
                       status |-> f[i].status]] :
        f \in [1..n -> DocumentKinds] }

Batches == UNION { BatchesOfLen(n) : n \in 0..MaxBatch }

\* params of the subscribe commands that are sent to the actor; query and
\* hydrate are optional fields of params (index.ts:35-40).  W1 subscribes to
\* all forms, to the open forms with hydration, or to commands; W2 subscribes
\* to all forms
SubscribeParams ==
    { [webhook |-> w, schemaType |-> "form"] : w \in Webhooks }
    \cup { [webhook |-> "W1", schemaType |-> "form", hydrate |-> TRUE,
            query |-> [status |-> "open"]],
           [webhook |-> "W1", schemaType |-> "command"] }

SubscribeCommand(p) ==
    [schemaType |-> "command", command |-> "subscribe", params |-> p]

\* the command documents that are posted to the actor
Commands == { SubscribeCommand(p) : p \in SubscribeParams }

CommandBatches == UNION { [1..n -> Commands] : n \in 0..MaxBatch }

\* ---------------------------------------------------------------- state
VARIABLES
    config,         \* Actor.config: schema type -> SchemaTypeConfig
    subscriptions,  \* Actor.subscriptions, in key (insertion) order
    listeners,      \* listeners of the "command" event, in registration order
    mounted,        \* the middleware router has been built
    pending,        \* subscribe commands whose hydrate() is awaited
    overwritten,    \* history: per webhook, the last replacement of its entry
    req,            \* the operation in progress and its input
    sent,           \* delivery calls (fetch) issued by that operation
    emitted,        \* "command" events emitted by that operation
    invoked,        \* listener calls of that operation: listener, event number
                    \* and the registry as it was when the listener was called
    notified,       \* "subscription" events emitted by that operation
    response,       \* HTTP response of that operation
    warned          \* urls logged as unreachable by that operation

vars == <<config, subscriptions, listeners, mounted, pending, overwritten,
          req, sent, emitted, invoked, notified, response, warned>>

\* ---------------------------------------------------------------- relay
\* new Mingo.Query(subscription.params.query || {}).test(doc)
QueryTest(params, doc) ==
    IF "query" \in DOMAIN params
    THEN \A f \in DOMAIN params.query :
            f \in DOMAIN doc /\ doc[f] = params.query[f]
    ELSE TRUE

\* one call of fetch(targetUrl, {body: JSON.stringify(documents), ...})
sendDocuments(targetUrl, documents) ==
    [url |-> targetUrl, body |-> documents]

\* faulty variant of relayToSubscription: one delivery call per document
relayToSubscription_perDocument(documents, subscription) ==
    LET matching == SelectSeq(documents,
                              LAMBDA doc : QueryTest(subscription.params, doc))
    IN  [i \in 1..Len(matching) |->
            sendDocuments(subscription.params.webhook, << matching[i] >>)]

\* the delivery calls made by relayToSubscription(documents, subscription)
relayToSubscription(documents, subscription) ==
    LET matching == SelectSeq(documents,
                              LAMBDA doc : QueryTest(subscription.params, doc))
    IN  IF Len(matching) > 0
        THEN << sendDocuments(subscription.params.webhook, matching) >>
        ELSE << >>

RECURSIVE relayFrom(_, _, _, _)
relayFrom(documents, schematype, subs, k) ==
    IF k > Len(subs) THEN << >>
    ELSE (IF schematype = subs[k].params.schemaType
          THEN relayToSubscription(documents, subs[k])
          ELSE << >>)
         \o relayFrom(documents, schematype, subs, k + 1)

\* faulty variant of relayToAllSubscriptions: the type of an entry is ignored
relayToAllSubscriptions_anyType(documents, schematype, subs) ==
    relayFrom(documents, schematype,
              [k \in 1..Len(subs) |->
                  [subs[k] EXCEPT !.params.schemaType = schematype]], 1)

\* the delivery calls made by relayToAllSubscriptions(documents, schematype)
relayToAllSubscriptions(documents, schematype, subs) ==
    relayFrom(documents, schematype, subs, 1)

\* ---------------------------------------------------------------- registry
\* this.subscriptions[webhook] = document on an object: an existing key keeps
\* its place and gets the new value, a new key is added last
\* faulty variants of SetKey: one adds an entry for every command, the other
\* keeps the entry of a webhook that re-subscribes to the same type
SetKey_append(subs, document) == Append(subs, document)

SetKey_keepQuery(subs, document) ==
    IF \E k \in 1..Len(subs) : subs[k].params.webhook = document.params.webhook
    THEN [k \in 1..Len(subs) |->
            IF subs[k].params.webhook = document.params.webhook
               /\ subs[k].params.schemaType = document.params.schemaType
            THEN subs[k] ELSE
            IF subs[k].params.webhook = document.params.webhook
            THEN document ELSE subs[k]]
    ELSE Append(subs, document)

\* faulty variant of SetKey: the registry is keyed by schema type, so that a
\* new subscriber of a type takes the place of the earlier one
SetKey_byType(subs, document) ==
    IF \E k \in 1..Len(subs) :
          subs[k].params.schemaType = document.params.schemaType
    THEN [k \in 1..Len(subs) |->
            IF subs[k].params.schemaType = document.params.schemaType
            THEN document ELSE subs[k]]
    ELSE Append(subs, document)

SetKey(subs, document) ==
    IF \E k \in 1..Len(subs) : subs[k].params.webhook = document.params.webhook
    THEN [k \in 1..Len(subs) |->
            IF subs[k].params.webhook = document.params.webhook
            THEN document ELSE subs[k]]
    ELSE Append(subs, document)

\* history of this.subscriptions[webhook] = document, recorded when tracked:
\* the entry that was replaced by another one, and the one that replaced it
Overwrite(history, subs, document) ==
    LET old == { k \in 1..Len(subs) :
                    /\ subs[k].params.webhook = document.params.webhook
                    /\ subs[k] # document }
    IN  IF history.track /\ old # {}
        THEN [history EXCEPT !.by =
                (document.params.webhook :>
                    [old |-> subs[CHOOSE k \in old : TRUE], new |-> document]) @@ @]
        ELSE history

\* st is the actor state threaded through one synchronous dispatch
handleSubscription(st, document) ==
    [st EXCEPT !.subscriptions = SetKey(@, document),
               !.overwritten = Overwrite(@, st.subscriptions, document),
               !.notified = Append(@, document)]

\* ---------------------------------------------------------------- command bus
WantsHydrate(params) == "hydrate" \in DOMAIN params /\ params.hydrate

\* faulty variant of subscriptionListener: a hydrated command is not recorded
\* before its hydration is awaited
subscriptionListener_registerAfterAwait(st, l, document) ==
    IF document.command = "subscribe"
       /\ document.params.schemaType = l.schemaType
    THEN IF l.hydrate /\ WantsHydrate(document.params)
         THEN [st EXCEPT !.pending = Append(@, document)]
         ELSE handleSubscription(st, document)
    ELSE st

\* faulty variant of subscriptionListener: the type the handler was installed
\* for is not compared with the type of the command
subscriptionListener_anyType(st, l, document) ==
    IF document.command = "subscribe"
    THEN LET st1 == handleSubscription(st, document)
         IN  IF l.hydrate /\ WantsHydrate(document.params)
             THEN [st1 EXCEPT !.pending = Append(@, document)]
             ELSE st1
    ELSE st

\* the listener added by registerSubscriptionHandler(schemaType, options), up
\* to its first await: the hydrate capability is called and then awaited
subscriptionListener(st, l, document) ==
    IF document.command = "subscribe"
       /\ document.params.schemaType = l.schemaType
    THEN LET st1 == handleSubscription(st, document)
         IN  IF l.hydrate /\ WantsHydrate(document.params)
             THEN [st1 EXCEPT !.pending = Append(@, document)]
             ELSE st1
    ELSE st

\* one listener call made by emit("command", document)
callListener(st, l, j, document) ==
    LET st1 == [st EXCEPT !.invoked = Append(@, [listener |-> j,
                                                  event |-> Len(st.emitted),
                                                  saw |-> st.subscriptions])]
    IN  IF l.kind = "onCommand"
        THEN [st1 EXCEPT !.thrown = l.throws]
        ELSE subscriptionListener(st1, l, document)

\* faulty variant of invokeListeners: the listener added last is called first
RECURSIVE invokeListeners_lastFirst(_, _, _, _)
invokeListeners_lastFirst(st, ls, document, j) ==
    IF j > Len(ls) \/ st.thrown THEN st
    ELSE invokeListeners_lastFirst(
            callListener(st, ls[Len(ls) + 1 - j], Len(ls) + 1 - j, document),
            ls, document, j + 1)

\* EventEmitter.emit calls the listeners in registration order and lets an
\* exception of a listener propagate to the caller of emit
RECURSIVE invokeListeners(_, _, _, _)
invokeListeners(st, ls, document, j) ==
    IF j > Len(ls) \/ st.thrown THEN st
    ELSE invokeListeners(callListener(st, ls[j], j, document), ls, document, j + 1)

emitCommand(st, ls, document) ==
    invokeListeners([st EXCEPT !.emitted = Append(@, document)], ls, document, 1)

\* faulty variant of commandOnIncoming: the registry writes of the listeners
\* are held back until every document of the batch has been emitted
RECURSIVE WriteAll(_, _, _)
WriteAll(subs, documents, i) ==
    IF i > Len(documents) THEN subs
    ELSE WriteAll(SetKey(subs, documents[i]), documents, i + 1)

RECURSIVE emitAllDeferred(_, _, _, _, _)
emitAllDeferred(st, ls, commandDocuments, i, arrival) ==
    IF i > Len(commandDocuments) \/ st.thrown
    THEN [st EXCEPT !.subscriptions = WriteAll(arrival, st.notified, 1)]
    ELSE emitAllDeferred(
            emitCommand([st EXCEPT !.subscriptions = arrival], ls,
                        commandDocuments[i]),
            ls, commandDocuments, i + 1, arrival)

commandOnIncoming_deferred(st, ls, commandDocuments, i) ==
    emitAllDeferred(st, ls, commandDocuments, i, st.subscriptions)

\* onIncoming of the "command" type: commandDocuments.forEach(emit)
RECURSIVE commandOnIncoming(_, _, _, _)
commandOnIncoming(st, ls, commandDocuments, i) ==
    IF i > Len(commandDocuments) \/ st.thrown THEN st
    ELSE commandOnIncoming(emitCommand(st, ls, commandDocuments[i]),
                           ls, commandDocuments, i + 1)

\* ---------------------------------------------------------------- setup
NoRequest == [kind |-> "none"]

\* new Actor(options): the constructor calls registerCommandHandler()
Constructed ==
    /\ config = ("command" :> [onIncoming |-> "emit", allowSubscribe |-> FALSE])
    /\ subscriptions = << >>
    /\ listeners = << >>
    /\ mounted = FALSE
    /\ pending = << >>
    /\ req = NoRequest
    /\ sent = << >>
    /\ emitted = << >>
    /\ invoked = << >>
    /\ notified = << >>
    /\ response = "none"
    /\ warned = {}

Init == Constructed /\ overwritten = [track |-> FALSE, by |-> << >>]

\* the same actor, with the history of replaced entries recorded
InitHistory == Constructed /\ overwritten = [track |-> TRUE, by |-> << >>]

outputs == <<req, sent, emitted, invoked, notified, response, warned>>

SubscriptionListener(schemaType, hydrate) ==
    [kind |-> "subscription", schemaType |-> schemaType, hydrate |-> hydrate]

\* registerSubscriptionHandler(schemaType, options)
registerSubscriptionHandler(schemaType, hydrate) ==
    /\ ~mounted
    /\ Len(listeners) < MaxListeners
    /\ listeners' = Append(listeners, SubscriptionListener(schemaType, hydrate))
    /\ UNCHANGED <<config, subscriptions, mounted, pending, overwritten, outputs>>

\* register(schemaType, config)
register(schemaType, cfg) ==
    /\ ~mounted
    /\ cfg.allowSubscribe => Len(listeners) < MaxListeners
    /\ config' = [t \in DOMAIN config \cup {schemaType} |->
                    IF t = schemaType THEN cfg ELSE config[t]]
    /\ listeners' = IF cfg.allowSubscribe
                    THEN Append(listeners, SubscriptionListener(schemaType, FALSE))
                    ELSE listeners
    /\ UNCHANGED <<subscriptions, mounted, pending, overwritten, outputs>>

\* onCommand(handler); throws: the handler throws when it is called
onCommand(throws) ==
    /\ ~mounted
    /\ Len(listeners) < MaxListeners
    /\ listeners' = Append(listeners, [kind |-> "onCommand", throws |-> throws])
    /\ UNCHANGED <<config, subscriptions, mounted, pending, overwritten, outputs>>

\* get middleware(): one POST route per schema type registered so far
middleware ==
    /\ ~mounted
    /\ mounted' = TRUE
    /\ UNCHANGED <<config, subscriptions, listeners, pending, overwritten, outputs>>

\* ---------------------------------------------------------------- requests
\* what the onIncoming of an application type does with a batch: it returns a
\* result, returns nothing (or a falsy value), or throws (or rejects); the
\* onIncoming of the "command" type is the class's own
AppOutcomes == {"result", "falsy", "throws"}

\* faulty variant of postHandler: onIncoming runs first and the relay, against
\* the registry it leaves, only when it did not fail
postHandler_relayLast(st0, schemaConfig, schematype, docs, outcome, ls) ==
    LET st == IF schemaConfig.onIncoming = "emit"
              THEN commandOnIncoming(st0, ls, docs, 1)
              ELSE [st0 EXCEPT !.thrown = (outcome = "throws")]
    IN  [st EXCEPT
            !.sent = IF st.thrown THEN << >>
                     ELSE relayToAllSubscriptions(docs, schematype, st.subscriptions),
            !.response = IF st.thrown THEN "rejected"
                         ELSE IF outcome = "result" THEN "result" ELSE "null"]

\* faulty variant of postHandler: the relay keeps, in each entry it relays to,
\* the last document of the batch
postHandler_remember(st0, schemaConfig, schematype, docs, outcome, ls) ==
    LET relayed == [st0 EXCEPT
                        !.sent = relayToAllSubscriptions(docs, schematype,
                                                         st0.subscriptions),
                        !.subscriptions =
                            [k \in 1..Len(st0.subscriptions) |->
                                IF st0.subscriptions[k].params.schemaType = schematype
                                   /\ docs # << >>
                                THEN [last |-> docs[Len(docs)]] @@ st0.subscriptions[k]
                                ELSE st0.subscriptions[k]]]
        st == IF schemaConfig.onIncoming = "emit"
              THEN commandOnIncoming(relayed, ls, docs, 1)
              ELSE IF schemaConfig.onIncoming = "app"
              THEN [relayed EXCEPT !.thrown = (outcome = "throws")]
              ELSE relayed
    IN  [st EXCEPT
            !.response = IF st.thrown THEN "rejected"
                         ELSE IF outcome = "result" THEN "result" ELSE "null"]

\* the route handler of POST /{schematype}: the relay, then onIncoming when
\* the type has one, then the response: res.json(result || null) when
\* onIncoming returned, none when it threw (the handler's promise rejects),
\* res.end() alone when the type has no onIncoming
postHandler(st0, schemaConfig, schematype, docs, outcome, ls) ==
    LET relayed == [st0 EXCEPT !.sent =
                        relayToAllSubscriptions(docs, schematype, st0.subscriptions)]
        st == IF schemaConfig.onIncoming = "emit"
              THEN commandOnIncoming(relayed, ls, docs, 1)
              ELSE IF schemaConfig.onIncoming = "app"
              THEN [relayed EXCEPT !.thrown = (outcome = "throws")]
              ELSE relayed
    IN  [st EXCEPT
            !.response = IF schemaConfig.onIncoming = "none" THEN "end"
                         ELSE IF st.thrown THEN "rejected"
                         ELSE IF schemaConfig.onIncoming = "app" /\ outcome = "result"
                         THEN "result"
                         ELSE "null"]

\* POST /{schematype} with body docs; outcome is what the application's
\* onIncoming does ("none" for the "command" type)
post(schematype, docs, outcome) ==
    /\ mounted
    /\ req = NoRequest
    /\ schematype \in DOMAIN config
    /\ LET st0 == [subscriptions |-> subscriptions, pending |-> pending,
                   overwritten |-> overwritten,
                   notified |-> << >>, invoked |-> << >>, emitted |-> << >>,
                   sent |-> << >>, response |-> "none", thrown |-> FALSE]
           st == postHandler(st0, config[schematype], schematype, docs, outcome,
                             listeners)
       IN  /\ Len(st.pending) <= MaxPending
           /\ sent' = st.sent
           /\ subscriptions' = st.subscriptions
           /\ pending' = st.pending
           /\ overwritten' = st.overwritten
           /\ notified' = st.notified
           /\ invoked' = st.invoked
           /\ emitted' = st.emitted
           /\ response' = st.response
           /\ warned' = {}
           /\ req' = [kind |-> "post", schemaType |-> schematype, docs |-> docs,
                      outcome |-> outcome]
    /\ UNCHANGED <<config, listeners, mounted>>

\* faulty variants of listenerResumed: one relays the result to every
\* subscription of the type, the other drops the entry of a failed hydration
listenerResumed_relayAll(subs, subscription, ok, docs) ==
    [subscriptions |-> subs,
     sent |-> IF ok
              THEN relayToAllSubscriptions(docs, subscription.params.schemaType, subs)
              ELSE << >>]

listenerResumed_rollback(subs, subscription, ok, docs) ==
    [subscriptions |-> IF ok /\ Len(docs) > 0 THEN subs
                       ELSE SelectSeq(subs, LAMBDA e : e # subscription),
     sent |-> IF ok THEN relayToSubscription(docs, subscription) ELSE << >>]

\* faulty variant of listenerResumed: the result is relayed to the entry that
\* the registry holds for the webhook when the hydration settles
listenerResumed_current(subs, subscription, ok, docs) ==
    LET current == SelectSeq(subs, LAMBDA e :
                        e.params.webhook = subscription.params.webhook)
    IN  [subscriptions |-> subs,
         sent |-> IF ok /\ current # << >>
                  THEN relayToSubscription(docs, current[1])
                  ELSE << >>]

\* the subscription listener after its await of options.hydrate(subscription):
\* a rejection ends the listener, a result is relayed to the subscribe command
\* the listener was called with
listenerResumed(subs, subscription, ok, docs) ==
    [subscriptions |-> subs,
     sent |-> IF ok THEN relayToSubscription(docs, subscription) ELSE << >>]

RemoveAt(s, i) == [k \in 1..(Len(s) - 1) |-> IF k < i THEN s[k] ELSE s[k + 1]]

\* the awaited options.hydrate(subscription) of pending[i] settles: with a
\* sequence of documents, or with a rejection that ends the listener
hydrated(i, ok, docs) ==
    /\ req = NoRequest
    /\ i \in 1..Len(pending)
    /\ LET after == listenerResumed(subscriptions, pending[i], ok, docs)
       IN  /\ sent' = after.sent
           /\ subscriptions' = after.subscriptions
    /\ pending' = RemoveAt(pending, i)
    /\ req' = [kind |-> "hydrate", subscription |-> pending[i],
               ok |-> ok, docs |-> docs]
    /\ emitted' = << >>
    /\ invoked' = << >>
    /\ notified' = << >>
    /\ warned' = {}
    /\ UNCHANGED <<config, listeners, mounted, overwritten, response>>

\* faulty variant of deliveryFailed: a webhook that could not be reached is
\* unsubscribed
deliveryFailed_unsubscribe(targetUrl) ==
    /\ req # NoRequest
    /\ targetUrl \notin warned
    /\ \E i \in 1..Len(sent) : sent[i].url = targetUrl
    /\ warned' = warned \cup {targetUrl}
    /\ subscriptions' = SelectSeq(subscriptions,
                                  LAMBDA e : e.params.webhook # targetUrl)
    /\ UNCHANGED <<config, listeners, mounted, pending, overwritten,
                   req, sent, emitted, invoked, notified, response>>

\* the fetch of the delivery call to targetUrl rejects: the .catch of
\* sendDocuments logs the target url, and the promise it returns, which no
\* caller awaits, is fulfilled
deliveryFailed(targetUrl) ==
    /\ req # NoRequest
    /\ targetUrl \notin warned
    /\ \E i \in 1..Len(sent) : sent[i].url = targetUrl
    /\ warned' = warned \cup {targetUrl}
    /\ UNCHANGED <<config, subscriptions, listeners, mounted, pending, overwritten,
                   req, sent, emitted, invoked, notified, response>>

\* the operation in progress is over: res.end() has flushed the response and
\* every fetch it issued has settled; the documents of the operation are not
\* retained
completed ==
    /\ req # NoRequest
    /\ req' = NoRequest
    /\ sent' = << >>
    /\ emitted' = << >>
    /\ invoked' = << >>
    /\ notified' = << >>
    /\ response' = "none"
    /\ warned' = {}
    /\ UNCHANGED <<config, subscriptions, listeners, mounted, pending, overwritten>>

\* ---------------------------------------------------------------- sending
\* options.endpoint of the actor, the actors a command is sent to, the types
\* subscribed to and the times at which a command is built
endpoint == "http://self/actor"

TargetUrls == {"http://a/actor", "http://b/actor"}

SchemaTypes == {"form", "order", "command"}

Clock == {1, 2}

\* the params argument of subscribe: any part of the params of a subscribe
\* command (Partial<SubscribeCommand["params"]>)
OptionValue ==
    [webhook |-> "W1", schemaType |-> "order",
     query |-> [status |-> "open"], hydrate |-> TRUE]

PartialParams == { [f \in D |-> OptionValue[f]] : D \in SUBSET DOMAIN OptionValue }

\* faulty variant of Spread: the defaults are written after the caller's fields
Spread_defaultsLast(defaults, params) ==
    [f \in DOMAIN defaults \cup DOMAIN params |->
        IF f \in DOMAIN defaults THEN defaults[f] ELSE params[f]]

\* the object literal {...defaults, ...params}: a field of params replaces the
\* field of the same name written before it
Spread(defaults, params) ==
    [f \in DOMAIN defaults \cup DOMAIN params |->
        IF f \in DOMAIN params THEN params[f] ELSE defaults[f]]

\* sendCommand(targetUrl, command, params, token) at time now
sendCommand(targetUrl, command, params, token, now) ==
    sendDocuments(targetUrl \o "/command",
                  << [command |-> command, params |-> params, token |-> token,
                      schemaType |-> "command", timestamp |-> now] >>)

\* subscribe(targetUrl, schemaType, params) called at time now
subscribe(targetUrl, schemaType, params, now) ==
    /\ req = NoRequest
    /\ sent' = << sendCommand(targetUrl, "subscribe",
                              Spread([schemaType |-> schemaType,
                                      webhook |-> endpoint \o "/" \o schemaType],
                                     params),
                              "", now) >>
    /\ req' = [kind |-> "subscribe", targetUrl |-> targetUrl,
               schemaType |-> schemaType, params |-> params]
    /\ emitted' = << >>
    /\ invoked' = << >>
    /\ notified' = << >>
    /\ warned' = {}
    /\ UNCHANGED <<config, subscriptions, listeners, mounted, pending,
                   overwritten, response>>

Next ==
    \/ \E h \in BOOLEAN : registerSubscriptionHandler("form", h)
    \/ registerSubscriptionHandler("command", FALSE)
    \/ \E a \in BOOLEAN :
          register("form", [onIncoming |-> "app", allowSubscribe |-> a])
    \/ onCommand(TRUE)
    \/ middleware
    \/ \E docs \in Batches, outcome \in AppOutcomes : post("form", docs, outcome)
    \/ \E docs \in CommandBatches : post("command", docs, "none")
    \/ \E i \in 1..MaxPending, docs \in Batches : hydrated(i, TRUE, docs)
    \/ \E i \in 1..MaxPending : hydrated(i, FALSE, << >>)
    \/ completed

Spec == Init /\ [][Next]_vars

SpecHistory == InitHistory /\ [][Next]_vars

\* the same actor, with the deliveries that fail told apart from the others
NextDelivery ==
    \/ Next
    \/ \E targetUrl \in Webhooks : deliveryFailed(targetUrl)

SpecDelivery == Init /\ [][NextDelivery]_vars

\* the same actor when its subscription handlers are installed by register
\* alone (no direct call of registerSubscriptionHandler, no onCommand)
NextRegister ==
    \/ \E a \in BOOLEAN :
          register("form", [onIncoming |-> "app", allowSubscribe |-> a])
    \/ middleware
    \/ \E docs \in Batches, outcome \in AppOutcomes : post("form", docs, outcome)
    \/ \E docs \in CommandBatches : post("command", docs, "none")
    \/ completed

SpecRegister == Init /\ [][NextRegister]_vars

\* a constructed actor that subscribes to other actors
NextSubscribe ==
    \/ \E targetUrl \in TargetUrls, schemaType \in SchemaTypes,
          params \in PartialParams, now \in Clock :
          subscribe(targetUrl, schemaType, params, now)
    \/ \E targetUrl \in TargetUrls : deliveryFailed(targetUrl \o "/command")
    \/ completed

SpecSubscribe == Init /\ [][NextSubscribe]_vars

\* an actor that hydrates the subscriptions to "form" and is sent, besides the
\* commands above, one that narrows W1's subscription to the closed forms
Resubscription ==
    SubscribeCommand([webhook |-> "W1", schemaType |-> "form",
                      query |-> [status |-> "closed"]])

ResubscribeBatches ==
    UNION { [1..n -> Commands \cup {Resubscription}] : n \in 0..MaxBatch }

NextHydration ==
    \/ registerSubscriptionHandler("form", TRUE)
    \/ registerSubscriptionHandler("command", FALSE)
    \/ middleware
    \/ \E docs \in ResubscribeBatches : post("command", docs, "none")
    \/ \E i \in 1..MaxPending, docs \in Batches : hydrated(i, TRUE, docs)
    \/ \E i \in 1..MaxPending : hydrated(i, FALSE, << >>)
    \/ completed

SpecHydration == Init /\ [][NextHydration]_vars

\* an actor that honors subscriptions to "command" (the command actor of the
\* readme): it is sent advertise commands and subscriptions to commands, of
\* W1 with the query {command: "subscribe"} or {command: "advertise"} and of
\* W2 without a query
Advertise ==
    [schemaType |-> "command", command |-> "advertise",
     params |-> [type |-> "authserver"]]

CommandSubscriptions ==
    { SubscribeCommand([webhook |-> "W1", schemaType |-> "command",
                        query |-> [command |-> c]]) :
        c \in {"subscribe", "advertise"} }
    \cup { SubscribeCommand([webhook |-> "W2", schemaType |-> "command"]) }

RelayedBatches ==
    UNION { [1..n -> CommandSubscriptions \cup {Advertise}] : n \in 0..MaxBatch }

NextCommandRelay ==
    \/ registerSubscriptionHandler("command", FALSE)
    \/ middleware
    \/ \E docs \in RelayedBatches : post("command", docs, "none")
    \/ completed

SpecCommandRelay == Init /\ [][NextCommandRelay]_vars

\* ================================================================ claims
\* what the claims say, stated without the operators of the model

\* document doc satisfies the query of subscription (no query: every document)
Satisfies(subscription, doc) ==
    \/ "query" \notin DOMAIN subscription.params
    \/ \A f \in DOMAIN subscription.params.query :
          f \in DOMAIN doc /\ doc[f] = subscription.params.query[f]

MatchingIndexes(docs, subscription) ==
    { i \in 1..Len(docs) : Satisfies(subscription, docs[i]) }

\* body is the subsequence of docs at the indexes idx, in the order of docs
IsSubsequenceAt(body, docs, idx) ==
    /\ Len(body) = Cardinality(idx)
    /\ \A k \in 1..Len(body) :
          \E i \in idx : /\ Cardinality({ j \in idx : j <= i }) = k
                         /\ body[k] = docs[i]

\* the delivery calls in calls that are addressed to url
CallsTo(calls, url) == { i \in 1..Len(calls) : calls[i].url = url }

\* calls holds exactly the one delivery that docs owe to subscription: one call
\* with the matching documents, or no call when no document matches
OwedDelivery(calls, docs, subscription) ==
    LET to == CallsTo(calls, subscription.params.webhook)
        idx == MatchingIndexes(docs, subscription)
    IN  IF idx = {} THEN to = {}
        ELSE /\ Cardinality(to) = 1
             /\ \A i \in to : IsSubsequenceAt(calls[i].body, docs, idx)

EntriesFor(subs, w) == { subs[k] : k \in { j \in 1..Len(subs) : subs[j].params.webhook = w } }

IsPostStep == req = NoRequest /\ req'.kind = "post"

\* ---------------------------------------------------------------- C1
C1_OnePerWebhook ==
    \A i, j \in 1..Len(subscriptions) :
        subscriptions[i].params.webhook = subscriptions[j].params.webhook => i = j

C1_LastWriterWins ==
    \A w \in Webhooks :
        LET handled == { k \in 1..Len(notified') : notified'[k].params.webhook = w }
        IN  IF handled = {}
            THEN EntriesFor(subscriptions', w) = EntriesFor(subscriptions, w)
            ELSE EntriesFor(subscriptions', w) =
                    { notified'[CHOOSE k \in handled : \A m \in handled : m <= k] }

\* C1: after every step the registry holds at most one entry per webhook, and
\* the entry of a webhook is, whole, the subscribe command that
\* handleSubscription handled last for it (and is left alone by a step that
\* handles none for it).
C1_Theorem == [][C1_OnePerWebhook' /\ C1_LastWriterWins]_vars

\* a batch subscribed W1 to "form" and then to "command": one entry, "command"
C1_Witness ==
    /\ Len(notified) = 2
    /\ notified[1].params.webhook = "W1" /\ notified[1].params.schemaType = "form"
    /\ notified[2].params.webhook = "W1" /\ notified[2].params.schemaType = "command"
    /\ EntriesFor(subscriptions, "W1") = { notified[2] }
    /\ Len(subscriptions) = 1

\* ---------------------------------------------------------------- C2
\* relayToSubscription is called with the registry's only entry by the relay
\* of a batch of that entry's type, and with the captured subscribe command
\* by the hydration
C2_SingleRelay ==
    /\ req.kind = "post"
    /\ req.schemaType # "command"
    /\ Len(subscriptions) = 1
    /\ subscriptions[1].params.schemaType = req.schemaType

\* C2: one call relayToSubscription(documents, subscription) makes exactly one
\* delivery call, to the subscription's webhook, with the documents that satisfy
\* its query in their original order (all of them when it has no query), and
\* no call when no document satisfies it.
C2_Theorem ==
    /\ (req.kind = "hydrate" /\ req.ok) =>
          /\ OwedDelivery(sent, req.docs, req.subscription)
          /\ Len(sent) <= 1
    /\ C2_SingleRelay =>
          /\ OwedDelivery(sent, req.docs, subscriptions[1])
          /\ Len(sent) <= 1

\* a batch of two documents, of which the query selects the second only
C2_Witness ==
    /\ req.kind = "hydrate" /\ req.ok
    /\ Len(req.docs) = 2
    /\ MatchingIndexes(req.docs, req.subscription) = {2}
    /\ Len(sent) = 1 /\ sent[1].body = << req.docs[2] >>

\* ---------------------------------------------------------------- C3
\* C3: the relay of batch B received for type T issues exactly one delivery
\* call for each registry entry of type T whose query matches a document of B,
\* with the documents that entry's own query selects, and no other call.
C3_Relay ==
    IsPostStep =>
        /\ \A k \in 1..Len(subscriptions) :
              IF subscriptions[k].params.schemaType = req'.schemaType
              THEN OwedDelivery(sent', req'.docs, subscriptions[k])
              ELSE CallsTo(sent', subscriptions[k].params.webhook) = {}
        /\ \A i \in 1..Len(sent') :
              \E k \in 1..Len(subscriptions) :
                  subscriptions[k].params.webhook = sent'[i].url

C3_Theorem == [][C3_Relay]_vars

\* two subscriptions to the same type receive different parts of one batch
C3_Witness ==
    /\ req.kind = "post" /\ req.schemaType = "form"
    /\ Len(subscriptions) = 2
    /\ Len(sent) = 2
    /\ sent[1].url # sent[2].url
    /\ sent[1].body # sent[2].body

\* ---------------------------------------------------------------- C4
\* C4 (as claimed): whatever batch is posted to whatever endpoint, no
\* delivery call addressed to the webhook of a subscription to type T carries
\* a document whose schemaType is not T.
C4_Claim ==
    [][IsPostStep =>
          \A i \in 1..Len(sent') : \A k \in 1..Len(subscriptions) :
              subscriptions[k].params.webhook = sent'[i].url =>
                  \A d \in 1..Len(sent'[i].body) :
                      sent'[i].body[d].schemaType =
                          subscriptions[k].params.schemaType]_vars

\* ---------------------------------------------------------------- C5
\* C5: once a subscribe command for webhook W has replaced an earlier entry
\* for W, the relay of an inbound batch delivers to W exactly the documents
\* that the replacing command's query selects (when the batch is of the
\* replacing command's type), whatever the replaced entry selected.
C5_Relay ==
    IsPostStep =>
        \A w \in DOMAIN overwritten.by :
            LET new == overwritten.by[w].new
            IN  new.params.schemaType = req'.schemaType =>
                    /\ OwedDelivery(sent', req'.docs, new)
                    /\ \A i \in CallsTo(sent', w) :
                          \A d \in 1..Len(sent'[i].body) :
                              Satisfies(new, sent'[i].body[d])

C5_Theorem == [][C5_Relay]_vars

\* W1 was subscribed to all forms and then to the open ones: of a batch with
\* a closed and an open document it is sent the open one only
C5_Witness ==
    /\ req.kind = "post" /\ req.schemaType = "form"
    /\ "W1" \in DOMAIN overwritten.by
    /\ overwritten.by["W1"].old.params.schemaType = "form"
    /\ "query" \notin DOMAIN overwritten.by["W1"].old.params
    /\ overwritten.by["W1"].new.params.schemaType = "form"
    /\ "query" \in DOMAIN overwritten.by["W1"].new.params
    /\ Len(req.docs) = 2
    /\ req.docs[1].status = "closed" /\ req.docs[2].status = "open"
    /\ req.docs[2].schemaType = "form"
    /\ \E i \in 1..Len(sent) : sent[i].url = "W1" /\ sent[i].body = << req.docs[2] >>

\* ---------------------------------------------------------------- C6
IsCommandPost == req.kind = "post" /\ req.schemaType = "command"

\* C6 (as claimed): a batch received on the "command" endpoint produces one
\* "command" event per document, in the order of the batch.
C6_Claim == IsCommandPost => emitted = req.docs

\* ---------------------------------------------------------------- C7
\* C7 (as claimed): when a "command" listener throws, the other listeners are
\* still invoked for every document of the batch and every document is still
\* emitted.
C7_Claim ==
    (IsCommandPost /\ \E j \in 1..Len(listeners) :
                         listeners[j].kind = "onCommand" /\ listeners[j].throws) =>
        /\ Len(emitted) = Len(req.docs)
        /\ \A i \in 1..Len(req.docs), j \in 1..Len(listeners) :
              \E n \in 1..Len(invoked) :
                  invoked[n].listener = j /\ invoked[n].event = i

\* ---------------------------------------------------------------- C8
IsHydrateStep == req = NoRequest /\ req'.kind = "hydrate"

HydrateConfigured(subscription) ==
    /\ "hydrate" \in DOMAIN subscription.params
    /\ subscription.params.hydrate
    /\ \E j \in 1..Len(listeners) :
          /\ listeners[j].kind = "subscription"
          /\ listeners[j].hydrate
          /\ listeners[j].schemaType = subscription.params.schemaType

\* C8: a hydration is awaited only for a subscribe command with params.hydrate
\* true that a handler installed with a hydrate capability handled; its result
\* goes to the webhook of that command and to no other one, as one call with
\* the documents of the result that the command's query selects, and as no
\* call when it selects none.
C8_Hydration ==
    /\ \A n \in 1..Len(pending') : HydrateConfigured(pending'[n])
    /\ (IsHydrateStep /\ req'.ok) =>
          /\ HydrateConfigured(req'.subscription)
          /\ \A i \in 1..Len(sent') :
                sent'[i].url = req'.subscription.params.webhook
          /\ OwedDelivery(sent', req'.docs, req'.subscription)

C8_Theorem == [][C8_Hydration]_vars

\* the result holds an open and a closed document; W2 is subscribed to all
\* forms, and the one call goes to the new subscriber W1 with the open one
C8_Witness ==
    /\ req.kind = "hydrate" /\ req.ok
    /\ req.subscription.params.webhook = "W1"
    /\ \E k \in 1..Len(subscriptions) :
          /\ subscriptions[k].params.webhook = "W2"
          /\ subscriptions[k].params.schemaType = "form"
          /\ "query" \notin DOMAIN subscriptions[k].params
    /\ Len(req.docs) = 2
    /\ req.docs[1].schemaType = "form" /\ req.docs[1].status = "open"
    /\ req.docs[2].status = "closed"
    /\ sent = << [url |-> "W1", body |-> << req.docs[1] >>] >>

\* ---------------------------------------------------------------- C9
C9_Registered ==
    /\ \A n \in 1..Len(pending) :
          EntriesFor(subscriptions, pending[n].params.webhook) # {}
    /\ req.kind = "hydrate" =>
          EntriesFor(subscriptions, req.subscription.params.webhook) # {}

\* C9: whenever the hydration for a subscribe command on webhook W is awaited
\* or its result is being delivered, the registry has an entry for W; a batch
\* that arrives while the hydration is awaited is relayed to W as the entry
\* of W says: the documents its query selects, when the batch is of its type.
C9_Live ==
    /\ C9_Registered'
    /\ IsPostStep =>
          \A n \in 1..Len(pending) :
              \A e \in EntriesFor(subscriptions, pending[n].params.webhook) :
                  e.params.schemaType = req'.schemaType =>
                      OwedDelivery(sent', req'.docs, e)

C9_Theorem == [][C9_Live]_vars

\* a batch of forms arrived while the hydration for W1 was awaited, and W1
\* was sent its open form
C9_Witness ==
    /\ req.kind = "post" /\ req.schemaType = "form"
    /\ Len(pending) = 1
    /\ pending[1].params.webhook = "W1"
    /\ pending[1] \in EntriesFor(subscriptions, "W1")
    /\ \E i \in 1..Len(sent) : sent[i].url = "W1"

\* ---------------------------------------------------------------- C10
\* C10: when the awaited hydrate capability throws, rejects or returns no
\* document, the step leaves the registry as it was, so the entry of the
\* hydrated command is still there when the hydration is over.
C10_Kept ==
    (IsHydrateStep /\ (~req'.ok \/ req'.docs = << >>)) =>
        /\ subscriptions' = subscriptions
        /\ EntriesFor(subscriptions', req'.subscription.params.webhook) # {}

C10_Theorem == [][C10_Kept]_vars

\* the hydration for W1 was rejected and W1's entry is the hydrated command
C10_Witness ==
    /\ req.kind = "hydrate" /\ ~req.ok
    /\ req.subscription.params.webhook = "W1"
    /\ EntriesFor(subscriptions, "W1") = { req.subscription }

\* ---------------------------------------------------------------- C11
\* C11: for every inbound batch the deliveries are the ones owed to the
\* entries the registry had at arrival (not to the ones onIncoming leaves),
\* whatever onIncoming returns and whether or not it fails, and onIncoming has
\* run: the first document of a command batch was emitted, and the response
\* of an application type is as its onIncoming ended.
C11_Dispatch ==
    IsPostStep =>
        /\ \A w \in Webhooks :
              IF \E e \in EntriesFor(subscriptions, w) :
                    e.params.schemaType = req'.schemaType
              THEN \A e \in EntriesFor(subscriptions, w) :
                      OwedDelivery(sent', req'.docs, e)
              ELSE CallsTo(sent', w) = {}
        /\ (req'.schemaType = "command" /\ req'.docs # << >>) =>
              (emitted' # << >> /\ emitted'[1] = req'.docs[1])
        /\ req'.schemaType # "command" =>
              /\ req'.outcome = "throws" <=> response' = "rejected"
              /\ req'.outcome = "result" <=> response' = "result"
              /\ req'.outcome = "falsy" <=> response' = "null"

C11_Theorem == [][C11_Dispatch]_vars

\* onIncoming threw on a batch of forms, and the subscriber was sent the batch
C11_Witness ==
    /\ req.kind = "post" /\ req.schemaType = "form"
    /\ req.outcome = "throws" /\ response = "rejected"
    /\ Len(req.docs) = 2
    /\ \E i \in 1..Len(sent) : sent[i].body = req.docs

\* ---------------------------------------------------------------- C12
Occurrences(seq, d) == Cardinality({ i \in 1..Len(seq) : seq[i] = d })

\* C12 (as claimed): whatever handlers were installed, a batch of commands
\* fires the "subscription" event once for each incoming subscribe command
\* that is recorded: a command is notified as often as it was received, and
\* never more often.
C12_Claim ==
    IsCommandPost =>
        \A n \in 1..Len(notified) :
            Occurrences(notified, notified[n]) = Occurrences(emitted, notified[n])

\* ---------------------------------------------------------------- C13
\* a subscription handler was installed for type t, by register with
\* allowSubscribe or by registerSubscriptionHandler
HandlerInstalled(t) ==
    \E j \in 1..Len(listeners) :
        listeners[j].kind = "subscription" /\ listeners[j].schemaType = t

\* C13: an inbound batch leaves config alone and changes the registry entry
\* of a webhook only when it is a command batch holding a subscribe command
\* for that webhook whose params.schemaType has a subscription handler
\* installed, which then is the entry; an actor without any handler (as a
\* freshly constructed one) has an empty registry.
C13_Frame ==
    /\ listeners' = << >> => subscriptions' = << >>
    /\ IsPostStep =>
          /\ config' = config
          /\ \A w \in Webhooks :
                EntriesFor(subscriptions', w) # EntriesFor(subscriptions, w) =>
                    /\ req'.schemaType = "command"
                    /\ \E i \in 1..Len(req'.docs) :
                          /\ req'.docs[i].command = "subscribe"
                          /\ req'.docs[i].params.webhook = w
                          /\ HandlerInstalled(req'.docs[i].params.schemaType)
                          /\ EntriesFor(subscriptions', w) = { req'.docs[i] }

C13_Theorem == [][C13_Frame]_vars

\* a batch subscribed W1 to "command" and W2 to "form" on an actor with a
\* handler for "form" only: both were emitted, W2 alone is in the registry
C13_Witness ==
    /\ IsCommandPost
    /\ Len(req.docs) = 2 /\ emitted = req.docs
    /\ req.docs[1].params.webhook = "W1"
    /\ req.docs[1].params.schemaType = "command"
    /\ req.docs[2].params.webhook = "W2"
    /\ HandlerInstalled("form") /\ ~HandlerInstalled("command")
    /\ subscriptions = << req.docs[2] >>

\* ---------------------------------------------------------------- C14
\* C14 (as claimed): subscribe commands for a type are honored as the
\* allowSubscribe flag of its stored config says: while the config stored for
\* "form" has allowSubscribe false (here: after register with true and then
\* with false), no batch makes a subscribe command for "form" a registry entry.
C14_Claim ==
    [][(IsPostStep /\ "form" \in DOMAIN config /\ ~config["form"].allowSubscribe) =>
          \A w \in Webhooks :
              EntriesFor(subscriptions', w) # EntriesFor(subscriptions, w) =>
                  \A e \in EntriesFor(subscriptions', w) :
                      e.params.schemaType # "form"]_vars

\* ---------------------------------------------------------------- C15
IsFailedStep == req # NoRequest /\ warned' # warned /\ warned' # {}

\* C15: when a delivery of an operation fails, the failure is logged and
\* nothing else happens: the response of the dispatch, the registry (the
\* failing subscription included), the awaited hydrations and config are as
\* before, and the delivery calls are the same (none is added, none is
\* withdrawn): one call for the failing webhook, and for an application batch
\* the calls owed to the other entries.
C15_Caught ==
    IsFailedStep =>
        /\ response' = response
        /\ subscriptions' = subscriptions
        /\ pending' = pending
        /\ config' = config
        /\ sent' = sent
        /\ \A u \in warned' :
              /\ Cardinality(CallsTo(sent', u)) = 1
              /\ EntriesFor(subscriptions', u) # {}
        /\ (req.kind = "post" /\ req.schemaType # "command") =>
              \A k \in 1..Len(subscriptions') :
                  subscriptions'[k].params.schemaType = req.schemaType =>
                      OwedDelivery(sent', req.docs, subscriptions'[k])

C15_Theorem == [][C15_Caught]_vars

\* the delivery of a batch of forms to W1 failed; W1 is still subscribed and
\* W2 has its call
C15_Witness ==
    /\ req.kind = "post" /\ req.schemaType = "form"
    /\ warned = {"W1"}
    /\ EntriesFor(subscriptions, "W1") # {}
    /\ CallsTo(sent, "W2") # {}
    /\ response = "result"

\* ---------------------------------------------------------------- C16
\* C16: no step removes a webhook from the registry: a webhook that has an
\* entry before a step has one after it, so the number of keys never falls.
C16_Grows ==
    /\ \A w \in Webhooks :
          EntriesFor(subscriptions, w) # {} => EntriesFor(subscriptions', w) # {}
    /\ Len(subscriptions') >= Len(subscriptions)

C16_Theorem == [][C16_Grows]_vars

\* W2 was subscribed first; a later batch subscribed W1 to the same type, and
\* W2 is still there
C16_Witness ==
    /\ IsCommandPost
    /\ Len(notified) = 1 /\ notified[1].params.webhook = "W1"
    /\ Len(subscriptions) = 2
    /\ subscriptions[1].params.webhook = "W2"
    /\ subscriptions[2] = notified[1]
    /\ subscriptions[1].params.schemaType = subscriptions[2].params.schemaType

\* ---------------------------------------------------------------- C17
\* C17 (as claimed): the dispatch of a batch to an application type always
\* answers: with the value of onIncoming when it produced one, and with null
\* otherwise, also when onIncoming failed.
C17_Claim ==
    (req.kind = "post" /\ req.schemaType # "command") =>
        response = (IF req.outcome = "result" THEN "result" ELSE "null")

\* ---------------------------------------------------------------- C18
\* what subscribe sends apart from params.schemaType: one call to the command
\* endpoint of the target, with a batch of one "subscribe" command whose
\* params.webhook is the caller's, or {endpoint}/{schemaType} when the caller
\* gives none
C18_OneCommand ==
    /\ Len(sent) = 1
    /\ sent[1].url = req.targetUrl \o "/command"
    /\ Len(sent[1].body) = 1
    /\ sent[1].body[1].schemaType = "command"
    /\ sent[1].body[1].command = "subscribe"
    /\ sent[1].body[1].params.webhook =
          (IF "webhook" \in DOMAIN req.params THEN req.params.webhook
           ELSE endpoint \o "/" \o req.schemaType)

\* C18 (as claimed): subscribe sends that one command, and its
\* params.schemaType is the schemaType argument.
C18_Claim ==
    req.kind = "subscribe" =>
        /\ C18_OneCommand
        /\ sent[1].body[1].params.schemaType = req.schemaType

\* C18 (amended): subscribe sends that one command; its params.schemaType is
\* the schemaType argument when params gives no schemaType, and the caller's
\* value when it does (the default webhook is built from the argument).
C18_Theorem ==
    req.kind = "subscribe" =>
        /\ C18_OneCommand
        /\ sent[1].body[1].params.schemaType =
              (IF "schemaType" \in DOMAIN req.params THEN req.params.schemaType
               ELSE req.schemaType)

\* subscribe(target, "form", {schemaType: "order"}): the command subscribes
\* the webhook {endpoint}/form to "order"
C18_Witness ==
    /\ req.kind = "subscribe"
    /\ req.schemaType = "form"
    /\ DOMAIN req.params = {"schemaType"}
    /\ sent[1].body[1].params =
          [schemaType |-> "order", webhook |-> "http://self/actor/form"]

\* ---------------------------------------------------------------- C19
\* C19 (as claimed): while a command batch is dispatched, the listeners of
\* a later document's event start with the registry as it was at arrival:
\* the updates of the batch come after the whole batch has been emitted.
C19_Claim ==
    [][(IsPostStep /\ req'.schemaType = "command") =>
          \A n \in 1..Len(invoked') :
              (invoked'[n].event > 1 /\ invoked'[n].listener = 1) =>
                  invoked'[n].saw = subscriptions]_vars

\* the documents before the i-th of the batch that subscribe webhook w and
\* whose type has a subscription handler
HandledBefore(docs, i, w) ==
    { j \in 1..(i - 1) : /\ docs[j].command = "subscribe"
                         /\ docs[j].params.webhook = w
                         /\ HandlerInstalled(docs[j].params.schemaType) }

\* C19 (amended): the registry update of a subscribe command happens while
\* its own document's event is dispatched: when the listeners of the i-th
\* document's event start, the registry holds, for every webhook, the last
\* handled subscribe command among documents 1..i-1 of the batch, and the
\* entry it had at arrival when there is none.
C19_Interleaved ==
    (IsPostStep /\ req'.schemaType = "command") =>
        \A n \in 1..Len(invoked') :
            invoked'[n].listener = 1 =>
                \A w \in Webhooks :
                    LET before == HandledBefore(req'.docs, invoked'[n].event, w)
                    IN  EntriesFor(invoked'[n].saw, w) =
                           IF before = {} THEN EntriesFor(subscriptions, w)
                           ELSE { req'.docs[CHOOSE j \in before :
                                               \A m \in before : m <= j] }

C19_Theorem == [][C19_Interleaved]_vars

\* the first document subscribed W1 with one command, the second with
\* another: the listeners of the second event saw the first in the registry
C19_Witness ==
    /\ IsCommandPost
    /\ Len(req.docs) = 2 /\ req.docs[1] # req.docs[2]
    /\ req.docs[1].params.webhook = "W1" /\ req.docs[2].params.webhook = "W1"
    /\ \E n \in 1..Len(invoked) :
          /\ invoked[n].event = 2 /\ invoked[n].listener = 1
          /\ EntriesFor(invoked[n].saw, "W1") = { req.docs[1] }
    /\ EntriesFor(subscriptions, "W1") = { req.docs[2] }

\* ---------------------------------------------------------------- C20
\* the subscription handlers installed for the type of subscribe command d
HandlersFor(d) ==
    { j \in 1..Len(listeners) : /\ listeners[j].kind = "subscription"
                                /\ listeners[j].schemaType = d.params.schemaType }

\* C20: the listeners are called one after the other in registration order,
\* for one document after the other; when a type has a subscription handler,
\* a listener registered after it is called, for a subscribe command of that
\* type, with the command already in the registry under its webhook, and a
\* listener registered before it (and the handler itself) with the registry
\* as it was when the event was emitted: the entries at arrival and the
\* updates of the documents before this one, the command's own not yet made.
C20_Order ==
    (IsPostStep /\ req'.schemaType = "command") =>
        /\ \A n \in 1..Len(invoked') :
              IF n = 1 THEN invoked'[n].event = 1 /\ invoked'[n].listener = 1
              ELSE \/ /\ invoked'[n].event = invoked'[n - 1].event
                      /\ invoked'[n].listener = invoked'[n - 1].listener + 1
                   \/ /\ invoked'[n].event = invoked'[n - 1].event + 1
                      /\ invoked'[n].listener = 1
                      /\ invoked'[n - 1].listener = Len(listeners)
        /\ \A n \in 1..Len(invoked') :
              LET d == req'.docs[invoked'[n].event]
              IN  HandlersFor(d) # {} =>
                      IF \E h \in HandlersFor(d) : h < invoked'[n].listener
                      THEN EntriesFor(invoked'[n].saw, d.params.webhook) = { d }
                      ELSE \A w \in Webhooks :
                              LET before == HandledBefore(req'.docs,
                                                          invoked'[n].event, w)
                              IN  EntriesFor(invoked'[n].saw, w) =
                                     IF before = {}
                                     THEN EntriesFor(subscriptions, w)
                                     ELSE { req'.docs[CHOOSE j \in before :
                                                         \A m \in before : m <= j] }

C20_Theorem == [][C20_Order]_vars

\* a handler for "form" and then an onCommand listener: for a subscribe
\* command for "form" the handler was called with an empty registry and the
\* onCommand listener with the command in it
C20_Witness ==
    /\ IsCommandPost
    /\ Len(listeners) = 2
    /\ listeners[1].kind = "subscription" /\ listeners[2].kind = "onCommand"
    /\ Len(invoked) = 2
    /\ invoked[1].listener = 1 /\ invoked[1].saw = << >>
    /\ invoked[2].listener = 2 /\ invoked[2].saw = << req.docs[1] >>

\* ---------------------------------------------------------------- C21
\* the subscribe commands that handleSubscription handled for webhook w
HandledFor(handled, w) ==
    { handled[k] : k \in { j \in 1..Len(handled) : handled[j].params.webhook = w } }

\* C21: the dispatch of a batch to an endpoint other than "command" (relay
\* and onIncoming) and the relay of a hydration result leave the subscription
\* registry, config and the listeners as they were and add no awaited
\* hydration, so that no relayed document is kept in the actor; and whatever
\* the step, the entry of a webhook changes only to a subscribe command that
\* handleSubscription handled in that step.
C21_Transient ==
    /\ ((IsPostStep /\ req'.schemaType # "command") \/ IsHydrateStep) =>
          /\ subscriptions' = subscriptions
          /\ config' = config
          /\ listeners' = listeners
          /\ \A n \in 1..Len(pending') : \E m \in 1..Len(pending) :
                pending'[n] = pending[m]
    /\ \A w \in Webhooks :
          EntriesFor(subscriptions', w) # EntriesFor(subscriptions, w) =>
              EntriesFor(subscriptions', w) \subseteq HandledFor(notified', w)
    /\ \A k \in 1..Len(subscriptions') :
          subscriptions'[k].params.webhook \in Webhooks

C21_Theorem == [][C21_Transient]_vars

\* a batch of two forms was relayed to two subscribers, and the registry
\* holds the two subscribe commands and nothing of the batch
C21_Witness ==
    /\ req.kind = "post" /\ req.schemaType = "form"
    /\ Len(req.docs) = 2
    /\ Len(sent) = 2
    /\ Len(subscriptions) = 2
    /\ \A k \in 1..2 : subscriptions[k] \in Commands

\* ---------------------------------------------------------------- C22
\* the hydration that settles was triggered by a subscribe command that is no
\* longer the registry entry of its webhook
IsStaleHydration ==
    /\ IsHydrateStep /\ req'.ok
    /\ EntriesFor(subscriptions, req'.subscription.params.webhook) #
          { req'.subscription }

\* C22: when the registry entry of webhook W was replaced while the hydration
\* for a subscribe command on W was awaited, the result is delivered as the
\* command that triggered it says: one call to W with the documents of the
\* result that the old command's query selects (none when it selects none),
\* whatever the entry now recorded for W selects, and the entry is left as
\* it is.
C22_Captured ==
    IsStaleHydration =>
        /\ OwedDelivery(sent', req'.docs, req'.subscription)
        /\ \A i \in 1..Len(sent') :
              /\ sent'[i].url = req'.subscription.params.webhook
              /\ \A d \in 1..Len(sent'[i].body) :
                    Satisfies(req'.subscription, sent'[i].body[d])
        /\ subscriptions' = subscriptions

C22_Theorem == [][C22_Captured]_vars

\* W1 asked for the open forms with hydration and, while the hydration was
\* awaited, for the closed forms only: it is sent the open form of the result,
\* which the query now recorded for it does not select
C22_Witness ==
    /\ req.kind = "hydrate" /\ req.ok
    /\ req.subscription.params.webhook = "W1"
    /\ req.subscription.params.query = [status |-> "open"]
    /\ EntriesFor(subscriptions, "W1") = { Resubscription }
    /\ Len(req.docs) = 2
    /\ Len(sent) = 1 /\ sent[1].url = "W1"
    /\ Len(sent[1].body) = 1
    /\ ~Satisfies(Resubscription, sent[1].body[1])

\* ---------------------------------------------------------------- C23
\* the entries the registry holds for webhook w that subscribe it to commands
CommandEntries(subs, w) ==
    { e \in EntriesFor(subs, w) : e.params.schemaType = "command" }

\* C23: on an actor with a subscription handler for "command", a command
\* batch is relayed as the registry was when the batch arrived: a webhook
\* without a subscription to "command" at arrival gets no call, also when a
\* command of the batch subscribes it, and a webhook with one gets the one
\* call that the batch owes to that entry (the commands its query selects),
\* also when a command of the batch replaces the entry.
C23_AtArrival ==
    (IsPostStep /\ req'.schemaType = "command" /\ HandlerInstalled("command")) =>
        \A w \in Webhooks :
            IF CommandEntries(subscriptions, w) = {}
            THEN CallsTo(sent', w) = {}
            ELSE \A e \in CommandEntries(subscriptions, w) :
                    OwedDelivery(sent', req'.docs, e)

C23_Theorem == [][C23_AtArrival]_vars

\* the batch narrows W1's subscription to the advertise commands and
\* subscribes W2 to all commands: W1 is sent the whole batch, as its replaced
\* entry (the subscribe commands) says, and W2 is sent nothing
C23_Witness ==
    /\ IsCommandPost
    /\ req.docs =
          << SubscribeCommand([webhook |-> "W1", schemaType |-> "command",
                               query |-> [command |-> "advertise"]]),
             SubscribeCommand([webhook |-> "W2", schemaType |-> "command"]) >>
    /\ subscriptions = req.docs
    /\ sent = << [url |-> "W1", body |-> req.docs] >>

\* ---------------------------------------------------------------- C24
\* the documents of the batch that subscribe webhook w and whose type has a
\* subscription handler
HandledIn(docs, w) == HandledBefore(docs, Len(docs) + 1, w)

\* C24 (as claimed): when a command batch has triggered a hydration, every
\* registry update of the batch has been made when the dispatch of the batch
\* ends, which is before the hydration can deliver anything: the entry of
\* each webhook that the batch subscribes is the last subscribe command of
\* the batch for that webhook.
C24_Claim ==
    [][(IsPostStep /\ req'.schemaType = "command" /\ Len(pending') > Len(pending)) =>
          /\ \A i \in 1..Len(sent') : \E k \in 1..Len(subscriptions) :
                subscriptions[k].params.webhook = sent'[i].url
          /\ \A w \in Webhooks :
                LET named == HandledIn(req'.docs, w)
                IN  named # {} =>
                       EntriesFor(subscriptions', w) =
                          { req'.docs[CHOOSE j \in named :
                                         \A m \in named : m <= j] }]_vars

====
